---- MODULE Spec2Model ----
(***************************************************************************)
(* Receipt analyzer: OCR text -> structured Receipt.                       *)
(*                                                                         *)
(* A JavaScript string is modelled as a sequence of characters; a          *)
(* character is a one-character string for ASCII and "uXXXX" (its code     *)
(* point) otherwise.  Regular expressions are syntax trees run by a        *)
(* backtracking matcher with the priorities of the ECMAScript matcher      *)
(* (leftmost start, alternatives in order, greedy / lazy quantifiers).     *)
(***************************************************************************)
EXTENDS Integers, Sequences, FiniteSets, TLC

VARIABLES
  \* one parseReceiptText call
  text, filePath, processedText, nextPrompt, extractedFields, items, receipt, pc,
  \* one categorizeStore call
  storeName, category,
  \* one run of main
  dirExists, files, fileIdx, receipts, exitCode, output, written, pcMain,
  \* one extractFieldWithPrompt call
  promptText, template, fieldResult

vars == << text, filePath, processedText, nextPrompt, extractedFields, items, receipt, pc,
           storeName, category,
           dirExists, files, fileIdx, receipts, exitCode, output, written, pcMain,
           promptText, template, fieldResult >>

textVars == << text, filePath, processedText, nextPrompt, extractedFields, items,
              receipt, pc >>
catVars == << storeName, category >>
mainVars == << dirExists, files, fileIdx, receipts, exitCode, output, written, pcMain >>
promptVars == << promptText, template, fieldResult >>

(***************************************************************************)
(* Characters and strings                                                  *)
(***************************************************************************)
\* \s of ECMAScript restricted to the characters of the model's alphabet
\* (space, tab, LF, CR, U+3000 ideographic space)
WhiteSpace == {" ", "\t", "\n", "\r", "u3000"}

\* the characters "." does not match
LineTerminators == {"\n", "\r"}

\* \d
Digits == {"0", "1", "2", "3", "4", "5", "6", "7", "8", "9"}

DigitSeq == <<"0", "1", "2", "3", "4", "5", "6", "7", "8", "9">>

UpperSeq == <<"A", "B", "C", "D", "E", "F", "G", "H", "I", "J", "K", "L", "M", "N", "O", "P", "Q", "R", "S", "T", "U", "V", "W", "X", "Y", "Z">>

LowerSeq == <<"a", "b", "c", "d", "e", "f", "g", "h", "i", "j", "k", "l", "m", "n", "o", "p", "q", "r", "s", "t", "u", "v", "w", "x", "y", "z">>

UpperSet == {UpperSeq[k] : k \in 1..Len(UpperSeq)}

LowerMap == [c \in UpperSet |-> LowerSeq[CHOOSE k \in 1..Len(UpperSeq) : UpperSeq[k] = c]]

\* String.prototype.toLowerCase on one character
toLowerChar(c) == IF c \in UpperSet THEN LowerMap[c] ELSE c

toLowerCase(s) == [k \in 1..Len(s) |-> toLowerChar(s[k])]

\* s.substring(b - 1, e - 1): the characters at 1-based positions b .. e-1
Sub(s, b, e) == SubSeq(s, b, e - 1)

RECURSIVE trimStart(_)
trimStart(s) ==
  IF s # <<>> /\ Head(s) \in WhiteSpace THEN trimStart(Tail(s)) ELSE s

RECURSIVE trimEnd(_)
trimEnd(s) ==
  IF s # <<>> /\ s[Len(s)] \in WhiteSpace THEN trimEnd(SubSeq(s, 1, Len(s) - 1)) ELSE s

\* String.prototype.trim
trim(s) == trimEnd(trimStart(s))

\* String.prototype.split on a set of one-character separators
RECURSIVE split(_, _)
split(s, seps) ==
  IF \E k \in 1..Len(s) : s[k] \in seps
  THEN LET k == CHOOSE j \in 1..Len(s) :
                  s[j] \in seps /\ \A h \in 1..(j - 1) : s[h] \notin seps
       IN  <<SubSeq(s, 1, k - 1)>> \o split(SubSeq(s, k + 1, Len(s)), seps)
  ELSE <<s>>

\* s.replace(/c/g, "") for the characters c of a set
removeChars(s, cs) == SelectSeq(s, LAMBDA c : c \notin cs)

DigitValue(c) == (CHOOSE k \in 1..10 : DigitSeq[k] = c) - 1

RECURSIVE DigitsValue(_)
DigitsValue(s) ==
  IF s = <<>> THEN 0 ELSE 10 * DigitsValue(SubSeq(s, 1, Len(s) - 1)) + DigitValue(s[Len(s)])

RECURSIVE LeadingDigits(_)
LeadingDigits(s) ==
  IF s # <<>> /\ Head(s) \in Digits THEN <<Head(s)>> \o LeadingDigits(Tail(s)) ELSE <<>>

\* String.prototype.padStart(2, "0")
padStart2(s) == IF Len(s) < 2 THEN SubSeq(<<"0", "0">>, 1, 2 - Len(s)) \o s ELSE s

(***************************************************************************)
(* JavaScript values held by the fields of a Receipt                       *)
(***************************************************************************)
JStr(s) == [k |-> "string", s |-> s, n |-> 0]
JNum(n) == [k |-> "number", s |-> <<>>, n |-> n]
Undefined == [k |-> "undefined", s |-> <<>>, n |-> 0]
Null == [k |-> "null", s |-> <<>>, n |-> 0]
NaN == [k |-> "NaN", s |-> <<>>, n |-> 0]

\* ToBoolean
Truthy(v) ==
  CASE v.k = "string" -> v.s # <<>>
    [] v.k = "number" -> v.n # 0
    [] OTHER -> FALSE

\* a || b
Or(a, b) == IF Truthy(a) THEN a ELSE b

\* parseInt(s, 10) on a string without sign or leading white space
parseInt(s) ==
  IF LeadingDigits(s) = <<>> THEN NaN ELSE JNum(DigitsValue(LeadingDigits(s)))

(***************************************************************************)
(* Regular expressions                                                     *)
(***************************************************************************)
Chr(c) == [t |-> "set", s |-> {c}]
Set(S) == [t |-> "set", s |-> S]
NotSet(S) == [t |-> "nset", s |-> S]
Dot == [t |-> "dot"]
Eol == [t |-> "eol"]
Cat(rs) == [t |-> "cat", rs |-> rs]
Alt(rs) == [t |-> "alt", rs |-> rs]
Grp(n, r) == [t |-> "grp", n |-> n, r |-> r]
\* a literal string
Str(s) == [t |-> "lit", s |-> s]
\* r{min,max}, r{min,} when unb, greedy g or lazy, for r one character wide
\* (a character, a class or "."), as is the body of every quantifier of the
\* program's patterns
Rep(r, min, max, unb, g) ==
  [t |-> "rep", r |-> r, min |-> min, max |-> max, unb |-> unb, g |-> g]
Star(r) == Rep(r, 0, 0, TRUE, TRUE)
Plus(r) == Rep(r, 1, 0, TRUE, TRUE)
Opt(r) == Rep(r, 0, 1, FALSE, TRUE)
StarLazy(r) == Rep(r, 0, 0, TRUE, FALSE)
PlusLazy(r) == Rep(r, 1, 0, TRUE, FALSE)
Times(r, min, max) == Rep(r, min, max, FALSE, TRUE)

\* flags of a regular expression literal
FlagsNone == [i |-> FALSE, m |-> FALSE]
FlagsI == [i |-> TRUE, m |-> FALSE]
FlagsIM == [i |-> TRUE, m |-> TRUE]

NoCaps == [n \in 1..4 |-> <<0, 0>>]

MatchFail == [ok |-> FALSE, b |-> 0, e |-> 0, c |-> NoCaps]

\* Canonicalize of the i flag.  The matcher runs on the canonicalised text; the
\* classes of the program's patterns hold no cased letter, its literals do.
Canon(c, fl) == IF fl.i THEN toLowerChar(c) ELSE c

CanonText(s, fl) == IF fl.i THEN toLowerCase(s) ELSE s

\* one (canonicalised) character against a node one character wide
CharOk(r, c) ==
  CASE r.t = "set" -> c \in r.s
    [] r.t = "nset" -> c \notin r.s
    [] r.t = "dot" -> c \notin LineTerminators

\* the literal w at position i of the canonicalised text s
LitAt(w, s, i, fl) ==
  /\ i + Len(w) - 1 <= Len(s)
  /\ \A j \in 1..Len(w) : s[i + j - 1] = Canon(w[j], fl)

SetMax(ns) == CHOOSE n \in ns : \A m \in ns : m <= n
SetMin(ns) == CHOOSE n \in ns : \A m \in ns : n <= m

\* how many characters from position i on match the node r
RunLen(r, s, i) ==
  LET stop == {j \in i..Len(s) : ~CharOk(r, s[j])}
  IN  IF stop = {} THEN Len(s) + 1 - i ELSE SetMin(stop) - i

\* Run(k, s, i, c, fl): match the nodes of the sequence k one after the other
\* from position i of s with captures c; the first success in backtracking
\* order.  A quantifier tries its iteration counts from the largest down when
\* greedy and from the smallest up when lazy.
RECURSIVE Run(_, _, _, _, _)
RECURSIVE RunAlt(_, _, _, _, _, _, _)
Run(k, s, i, c, fl) ==
  IF k = <<>> THEN [ok |-> TRUE, b |-> 0, e |-> i, c |-> c]
  ELSE
    LET r == Head(k)
        rest == Tail(k)
    IN
    CASE r.t \in {"set", "nset", "dot"} ->
           IF i <= Len(s) /\ CharOk(r, s[i])
           THEN Run(rest, s, i + 1, c, fl) ELSE MatchFail
      [] r.t = "lit" ->
           IF LitAt(r.s, s, i, fl) THEN Run(rest, s, i + Len(r.s), c, fl) ELSE MatchFail
      [] r.t = "eol" ->
           IF i = Len(s) + 1 \/ (fl.m /\ i <= Len(s) /\ s[i] \in LineTerminators)
           THEN Run(rest, s, i, c, fl) ELSE MatchFail
      [] r.t = "cat" -> Run(r.rs \o rest, s, i, c, fl)
      [] r.t = "alt" -> RunAlt(r.rs, 1, rest, s, i, c, fl)
      [] r.t = "grp" ->
           Run(<<r.r, [t |-> "end", n |-> r.n, b |-> i]>> \o rest, s, i, c, fl)
      [] r.t = "end" -> Run(rest, s, i, [c EXCEPT ![r.n] = <<r.b, i>>], fl)
      [] r.t = "rep" ->
           LET n == RunLen(r.r, s, i)
               hi == IF r.unb \/ n <= r.max THEN n ELSE r.max
               good == {m \in r.min..hi : Run(rest, s, i + m, c, fl).ok}
           IN  IF good = {} THEN MatchFail
               ELSE Run(rest, s, i + (IF r.g THEN SetMax(good) ELSE SetMin(good)), c, fl)

RunAlt(rs, j, rest, s, i, c, fl) ==
  IF j > Len(rs) THEN MatchFail
  ELSE LET a == Run(<<rs[j]>> \o rest, s, i, c, fl)
       IN  IF a.ok THEN a ELSE RunAlt(rs, j + 1, rest, s, i, c, fl)

\* the leftmost match of re in s at or after position from
ExecFrom(re, s, from) ==
  LET cs == CanonText(s, re.fl)
      starts == {i \in from..(Len(s) + 1) : Run(<<re.r>>, cs, i, NoCaps, re.fl).ok}
  IN  IF starts = {} THEN MatchFail
      ELSE [Run(<<re.r>>, cs, SetMin(starts), NoCaps, re.fl) EXCEPT !.b = SetMin(starts)]

\* String.prototype.match without the g flag (RegExp.prototype.exec)
RegExpExec(re, s) == ExecFrom(re, s, 1)

\* RegExp.prototype.test
RegExpTest(re, s) == RegExpExec(re, s).ok

\* match[n]: the text of capture group n
Group(m, s, n) == Sub(s, m.c[n][1], m.c[n][2])

\* match[0]
Matched(m, s) == Sub(s, m.b, m.e)

\* String.prototype.match with the g flag: every match, left to right, each
\* search resuming where the previous match ended (no pattern of the program
\* used this way matches the empty string)
RECURSIVE MatchAllFrom(_, _, _)
MatchAllFrom(re, s, from) ==
  LET m == ExecFrom(re, s, from)
  IN  IF ~m.ok THEN <<>>
      ELSE <<Matched(m, s)>> \o MatchAllFrom(re, s, m.e)

MatchAll(re, s) == MatchAllFrom(re, s, 1)

\* String.prototype.replace(re, repl) for a g-flagged re and a literal repl
RECURSIVE ReplaceFrom(_, _, _, _)
ReplaceFrom(re, s, repl, from) ==
  LET m == ExecFrom(re, s, from)
  IN  IF ~m.ok THEN SubSeq(s, from, Len(s))
      ELSE Sub(s, from, m.b) \o repl \o ReplaceFrom(re, s, repl, m.e)

ReplaceAll(re, s, repl) == ReplaceFrom(re, s, repl, 1)

\* s.replace(/a/g, "b") for single characters a, b
ReplaceChar(s, a, b) == [k \in 1..Len(s) |-> IF s[k] = a THEN b ELSE s[k]]

(***************************************************************************)
(* japaneseReceiptPrompts: the rule table                                  *)
(***************************************************************************)
Re(r, fl) == [r |-> r, fl |-> fl]

\* \s
Space == Set(WhiteSpace)

\* \d
Digit == Set(Digits)

\* (\d[\d,]+) as capture group n
NumberGroup(n) == Grp(n, Cat(<<Digit, Plus(Set(Digits \cup {","}))>>))

\* [\s:：]*
LabelSep == Star(Set(WhiteSpace \cup {":", "uff1a"}))

\* [\¥\\]?
YenOpt == Opt(Set({"u00a5", "\\"}))

\* [^\\¥\d]*
NotYenDigit == Star(NotSet({"\\", "u00a5"} \cup Digits))

storeNamePatterns == <<
  \* /店名[:|：]\s*(.+)/i
  Re(Cat(<<Str(<<"u5e97", "u540d">>), Set({":", "|", "uff1a"}), Star(Space), Grp(1, Plus(Dot))>>), FlagsI),
  \* /(.+)\s*\n.*領収/i
  Re(Cat(<<Grp(1, Plus(Dot)), Star(Space), Chr("\n"), Star(Dot), Str(<<"u9818", "u53ce">>)>>), FlagsI),
  \* /(.{2,20})\s*\n.*[0-9]{3}-[0-9]{4}/i
  Re(Cat(<<Grp(1, Times(Dot, 2, 20)), Star(Space), Chr("\n"), Star(Dot),
           Times(Digit, 3, 3), Chr("-"), Times(Digit, 4, 4)>>), FlagsI),
  \* /商号名称[:：\s]*(.*?)[\s\n]/i
  Re(Cat(<<Str(<<"u5546", "u53f7", "u540d", "u79f0">>), Star(Set({":", "uff1a"} \cup WhiteSpace)),
           Grp(1, StarLazy(Dot)), Set(WhiteSpace \cup {"\n"})>>), FlagsI),
  \* /屋号[：:]\s*(.*?)[\s\n]/i
  Re(Cat(<<Str(<<"u5c4b", "u53f7">>), Set({"uff1a", ":"}), Star(Space),
           Grp(1, StarLazy(Dot)), Set(WhiteSpace \cup {"\n"})>>), FlagsI) >>

datePatterns == <<
  \* /日付[：:]\s*(\d{4})[\/\-年](\d{1,2})[\/\-月](\d{1,2})/i
  Re(Cat(<<Str(<<"u65e5", "u4ed8">>), Set({"uff1a", ":"}), Star(Space), Grp(1, Times(Digit, 4, 4)),
           Set({"/", "-", "u5e74"}), Grp(2, Times(Digit, 1, 2)),
           Set({"/", "-", "u6708"}), Grp(3, Times(Digit, 1, 2))>>), FlagsI),
  \* /(\d{4})[年\/\.\-](\d{1,2})[月\/\.\-](\d{1,2})[日]?/i
  Re(Cat(<<Grp(1, Times(Digit, 4, 4)), Set({"u5e74", "/", ".", "-"}),
           Grp(2, Times(Digit, 1, 2)), Set({"u6708", "/", ".", "-"}),
           Grp(3, Times(Digit, 1, 2)), Opt(Chr("u65e5"))>>), FlagsI),
  \* /(\d{2})[\/\.](\d{1,2})[\/\.](\d{1,2})/i
  Re(Cat(<<Grp(1, Times(Digit, 2, 2)), Set({"/", "."}), Grp(2, Times(Digit, 1, 2)),
           Set({"/", "."}), Grp(3, Times(Digit, 1, 2))>>), FlagsI),
  \* /(\d{1,2})月(\d{1,2})日/i
  Re(Cat(<<Grp(1, Times(Digit, 1, 2)), Chr("u6708"), Grp(2, Times(Digit, 1, 2)),
           Chr("u65e5")>>), FlagsI) >>

amountPatterns == <<
  \* /合計[金額]*[\s:：]*[\¥\\]?(\d[\d,]+)/i
  Re(Cat(<<Str(<<"u5408", "u8a08">>), Star(Set({"u91d1", "u984d"})), LabelSep, YenOpt,
           NumberGroup(1)>>), FlagsI),
  \* /(?:小計|お買上げ|計)[^\\¥\d]*[\s:：]*[\¥\\]?(\d[\d,]+)/i
  Re(Cat(<<Alt(<<Str(<<"u5c0f", "u8a08">>), Str(<<"u304a", "u8cb7", "u4e0a", "u3052">>), Str(<<"u8a08">>)>>), NotYenDigit,
           LabelSep, YenOpt, NumberGroup(1)>>), FlagsI),
  \* /(?:total|金額)[^\\¥\d]*[\s:：]*[\¥\\]?(\d[\d,]+)/i
  Re(Cat(<<Alt(<<Str(<<"t", "o", "t", "a", "l">>), Str(<<"u91d1", "u984d">>)>>), NotYenDigit,
           LabelSep, YenOpt, NumberGroup(1)>>), FlagsI),
  \* /(?:お会計|ご請求額|請求金額)[\s:：]*[\¥\\]?(\d[\d,]+)/i
  Re(Cat(<<Alt(<<Str(<<"u304a", "u4f1a", "u8a08">>), Str(<<"u3054", "u8acb", "u6c42", "u984d">>), Str(<<"u8acb", "u6c42", "u91d1", "u984d">>)>>),
           LabelSep, YenOpt, NumberGroup(1)>>), FlagsI),
  \* /(?:￥|¥)[\s]*(\d[\d,]+)(?:\s*$|\s*円)/im
  Re(Cat(<<Alt(<<Chr("uffe5"), Chr("u00a5")>>), Star(Space), NumberGroup(1),
           Alt(<<Cat(<<Star(Space), Eol>>), Cat(<<Star(Space), Chr("u5186")>>)>>)>>), FlagsIM) >>

\* /(?:￥|¥)[\s]*(\d[\d,]+)/g of the amount fallback
currencyPattern ==
  Re(Cat(<<Alt(<<Chr("uffe5"), Chr("u00a5")>>), Star(Space), NumberGroup(1)>>), FlagsNone)

taxAmountPatterns == <<
  \* /消費税[額]?[\s:：]*[\¥\\]?(\d[\d,]+)/i
  Re(Cat(<<Str(<<"u6d88", "u8cbb", "u7a0e">>), Opt(Chr("u984d")), LabelSep, YenOpt, NumberGroup(1)>>), FlagsI),
  \* /内税[\s:：]*[\¥\\]?(\d[\d,]+)/i
  Re(Cat(<<Str(<<"u5185", "u7a0e">>), LabelSep, YenOpt, NumberGroup(1)>>), FlagsI),
  \* /外税[\s:：]*[\¥\\]?(\d[\d,]+)/i
  Re(Cat(<<Str(<<"u5916", "u7a0e">>), LabelSep, YenOpt, NumberGroup(1)>>), FlagsI),
  \* /税額[\s:：]*[\¥\\]?(\d[\d,]+)/i
  Re(Cat(<<Str(<<"u7a0e", "u984d">>), LabelSep, YenOpt, NumberGroup(1)>>), FlagsI),
  \* /税[\s:：]*(\d[\d,]+)(?:\s*$|\s*円)/i
  Re(Cat(<<Chr("u7a0e"), LabelSep, NumberGroup(1),
           Alt(<<Cat(<<Star(Space), Eol>>), Cat(<<Star(Space), Chr("u5186")>>)>>)>>), FlagsI) >>

paymentMethodPatterns == <<
  \* /(?:支払[方法い]|お支払い方法)[\s:：]*(.+?)(?:[\s\n]|$)/i
  Re(Cat(<<Alt(<<Cat(<<Str(<<"u652f", "u6255">>), Set({"u65b9", "u6cd5", "u3044"})>>), Str(<<"u304a", "u652f", "u6255", "u3044", "u65b9", "u6cd5">>)>>),
           LabelSep, Grp(1, PlusLazy(Dot)),
           Alt(<<Set(WhiteSpace \cup {"\n"}), Eol>>)>>), FlagsI),
  \* /(クレジット|カード|デビット|現金|電子マネー|QRコード|PayPay|メルペイ|交通系|Suica|PASMO)/i
  Re(Grp(1, Alt(<<Str(<<"u30af", "u30ec", "u30b8", "u30c3", "u30c8">>), Str(<<"u30ab", "u30fc", "u30c9">>), Str(<<"u30c7", "u30d3", "u30c3", "u30c8">>), Str(<<"u73fe", "u91d1">>),
                  Str(<<"u96fb", "u5b50", "u30de", "u30cd", "u30fc">>), Str(<<"Q", "R", "u30b3", "u30fc", "u30c9">>), Str(<<"P", "a", "y", "P", "a", "y">>), Str(<<"u30e1", "u30eb", "u30da", "u30a4">>),
                  Str(<<"u4ea4", "u901a", "u7cfb">>), Str(<<"S", "u", "i", "c", "a">>), Str(<<"P", "A", "S", "M", "O">>)>>)), FlagsI) >>

\* "不明な店舗"
UnknownStore == <<"u4e0d", "u660e", "u306a", "u5e97", "u8217">>

\* "日付不明"
UnknownDate == <<"u65e5", "u4ed8", "u4e0d", "u660e">>

\* new Date().getFullYear(), as a string: the year of the run
currentYear == <<"2", "0", "2", "6">>

\* a PromptTemplate: processor and fallback name the entry of the table whose
\* function the template holds
japaneseReceiptPrompts == <<
  [fieldName |-> "storeName", patterns |-> storeNamePatterns,
   hasProcessor |-> FALSE, processor |-> "none",
   hasFallback |-> TRUE, fallback |-> "storeName"],
  [fieldName |-> "date", patterns |-> datePatterns,
   hasProcessor |-> TRUE, processor |-> "date",
   hasFallback |-> FALSE, fallback |-> "none"],
  [fieldName |-> "amount", patterns |-> amountPatterns,
   hasProcessor |-> TRUE, processor |-> "amount",
   hasFallback |-> TRUE, fallback |-> "amount"],
  [fieldName |-> "taxAmount", patterns |-> taxAmountPatterns,
   hasProcessor |-> TRUE, processor |-> "taxAmount",
   hasFallback |-> FALSE, fallback |-> "none"],
  [fieldName |-> "paymentMethod", patterns |-> paymentMethodPatterns,
   hasProcessor |-> FALSE, processor |-> "none",
   hasFallback |-> FALSE, fallback |-> "none"] >>

FieldNames == {"storeName", "date", "amount", "taxAmount", "paymentMethod"}

\* the entry of the table for a field
PromptOf(fieldName) ==
  japaneseReceiptPrompts[CHOOSE j \in 1..Len(japaneseReceiptPrompts) :
                           japaneseReceiptPrompts[j].fieldName = fieldName]

\* the date processor
dateProcessor(match) ==
  LET parts == SelectSeq(split(match, {"u5e74", "u6708", "u65e5", "/", ".", "-"}),
                         LAMBDA p : Len(trim(p)) > 0)
  IN  IF Len(parts) >= 3
      THEN LET year == IF Len(parts[1]) = 2 THEN <<"2", "0">> \o parts[1] ELSE parts[1]
           IN  JStr(year \o <<"-">> \o padStart2(parts[2]) \o <<"-">> \o padStart2(parts[3]))
      ELSE IF Len(parts) = 2
           THEN JStr(currentYear \o <<"-">> \o padStart2(parts[1]) \o <<"-">>
                     \o padStart2(parts[2]))
           ELSE Null

\* the amount and taxAmount processor: parseInt(value.replace(/,/g, ""), 10)
numberProcessor(value) == parseInt(removeChars(value, {","}))

processor(fieldName, value) ==
  CASE fieldName = "date" -> dateProcessor(value)
    [] fieldName = "amount" -> numberProcessor(value)
    [] fieldName = "taxAmount" -> numberProcessor(value)

\* the storeName fallback: the first non-blank line, trimmed
storeNameFallback(t) ==
  LET lines == SelectSeq(split(t, {"\n"}), LAMBDA line : Len(trim(line)) > 0)
  IN  IF Len(lines) > 0 THEN JStr(trim(lines[1])) ELSE JStr(UnknownStore)

\* a variant of MathMax that takes the first number instead of the largest
MathFirst(ns) == ns[1]

\* Math.max of a non-empty sequence of numbers
RECURSIVE MathMax(_)
MathMax(ns) ==
  IF Len(ns) = 1 THEN ns[1]
  ELSE LET m == MathMax(Tail(ns)) IN IF ns[1] >= m THEN ns[1] ELSE m

\* the amount fallback: the largest currency-marked number of the text
amountFallback(t) ==
  LET currencyValues == MatchAll(currencyPattern, t)
  IN  IF Len(currencyValues) > 0
      THEN LET amounts == [j \in 1..Len(currencyValues) |->
                             parseInt(removeChars(
                               SelectSeq(currencyValues[j],
                                         LAMBDA c : c \in Digits \cup {","}),
                               {","})).n]
           IN  JNum(MathMax(amounts))
      ELSE JNum(0)

fallback(fieldName, t) ==
  CASE fieldName = "storeName" -> storeNameFallback(t)
    [] fieldName = "amount" -> amountFallback(t)

(***************************************************************************)
(* ReceiptAnalyzer                                                         *)
(***************************************************************************)
FullWidthDigits == <<"uff10", "uff11", "uff12", "uff13", "uff14", "uff15", "uff16", "uff17", "uff18", "uff19">>

\* the ten .replace(/０/g, "0") ... .replace(/９/g, "9"), which touch disjoint
\* characters
ReplaceDigits(s) ==
  [k \in 1..Len(s) |->
     IF \E d \in 1..10 : FullWidthDigits[d] = s[k]
     THEN DigitSeq[CHOOSE d \in 1..10 : FullWidthDigits[d] = s[k]]
     ELSE s[k]]

\* a variant of postprocessText whose first replacement is /\s\s/g instead of
\* /\s+/g: a run of three white-space characters is left as two
postprocessPairs(t) ==
  LET collapsed == ReplaceAll(Re(Cat(<<Space, Space>>), FlagsNone), t, <<" ">>)
      digits == ReplaceDigits(collapsed)
      comma == ReplaceChar(digits, "uff0c", ",")
      period == ReplaceChar(comma, "uff0e", ".")
  IN  ReplaceAll(Re(Cat(<<Chr("\n"), Star(Space), Chr("\n")>>), FlagsNone), period, <<"\n">>)

\* postprocessText
postprocessText(t) ==
  LET collapsed == ReplaceAll(Re(Plus(Space), FlagsNone), t, <<" ">>)
      digits == ReplaceDigits(collapsed)
      comma == ReplaceChar(digits, "uff0c", ",")
      period == ReplaceChar(comma, "uff0e", ".")
  IN  ReplaceAll(Re(Cat(<<Chr("\n"), Star(Space), Chr("\n")>>), FlagsNone), period, <<"\n">>)

\* match && match[1]
MatchHasGroup1(m, t) == m.ok /\ m.c[1] # <<0, 0>> /\ Group(m, t, 1) # <<>>

\* a variant of extractFrom that goes on to the next rule, and in the end to
\* the fallback, when the processor returns null
RECURSIVE extractRetrying(_, _, _)
extractRetrying(t, prompt, j) ==
  IF j > Len(prompt.patterns)
  THEN IF prompt.hasFallback THEN fallback(prompt.fallback, t) ELSE Undefined
  ELSE LET m == RegExpExec(prompt.patterns[j], t)
       IN  IF MatchHasGroup1(m, t)
              /\ (prompt.hasProcessor => processor(prompt.processor, trim(Group(m, t, 1))) # Null)
           THEN LET value == trim(Group(m, t, 1))
                IN  IF prompt.hasProcessor THEN processor(prompt.processor, value)
                    ELSE JStr(value)
           ELSE extractRetrying(t, prompt, j + 1)

RECURSIVE extractFrom(_, _, _)
extractFrom(t, prompt, j) ==
  IF j > Len(prompt.patterns)
  THEN IF prompt.hasFallback THEN fallback(prompt.fallback, t) ELSE Undefined
  ELSE LET m == RegExpExec(prompt.patterns[j], t)
       IN  IF MatchHasGroup1(m, t)
           THEN LET value == trim(Group(m, t, 1))
                IN  IF prompt.hasProcessor THEN processor(prompt.processor, value)
                    ELSE JStr(value)
           ELSE extractFrom(t, prompt, j + 1)

\* a variant of extractFieldWithPrompt that starts at the second rule
extractFromSecond(t, prompt) == extractFrom(t, prompt, 2)

extractFieldWithPrompt(t, prompt) == extractFrom(t, prompt, 1)

\* /(.+?)\s+(\d+)\s+[\¥\\]?(\d[\d,]+)\s+[\¥\\]?(\d[\d,]+)/
itemPattern ==
  Re(Cat(<<Grp(1, PlusLazy(Dot)), Plus(Space), Grp(2, Plus(Digit)), Plus(Space), YenOpt,
           NumberGroup(3), Plus(Space), YenOpt, NumberGroup(4)>>), FlagsNone)

\* extractItems: the loop over the lines from line j on
RECURSIVE itemsFrom(_, _)
itemsFrom(lines, j) ==
  IF j > Len(lines) THEN <<>>
  ELSE LET m == RegExpExec(itemPattern, lines[j])
       IN  (IF m.ok
            THEN << [name |-> trim(Group(m, lines[j], 1)),
                     quantity |-> parseInt(Group(m, lines[j], 2)).n,
                     unitPrice |-> parseInt(removeChars(Group(m, lines[j], 3), {","})).n,
                     totalPrice |-> parseInt(removeChars(Group(m, lines[j], 4), {","})).n] >>
            ELSE <<>>) \o itemsFrom(lines, j + 1)

extractItems(t) == itemsFrom(split(t, {"\n"}), 1)

\* test of one keyword alternation against the lower-cased name
Keywords(ws) == Re(Alt([j \in 1..Len(ws) |-> Str(ws[j])]), FlagsNone)

\* the keyword alternations of categorizeStore, in the order they are tested
diningKeywords == <<<<"r", "e", "s", "t", "a", "u", "r", "a", "n", "t">>, <<"c", "a", "f", "e">>, <<"c", "o", "f", "f", "e", "e">>, <<"u30ec", "u30b9", "u30c8", "u30e9", "u30f3">>, <<"u30ab", "u30d5", "u30a7">>, <<"u98df", "u5802">>,
                    <<"u5c45", "u9152", "u5c4b">>, <<"u30c0", "u30a4", "u30cb", "u30f3", "u30b0">>>>
groceryKeywords == <<<<"m", "a", "r", "k", "e", "t">>, <<"s", "u", "p", "e", "r">>, <<"u30b3", "u30f3", "u30d3", "u30cb">>, <<"u30de", "u30fc", "u30c8">>, <<"u30b9", "u30fc", "u30d1", "u30fc">>, <<"u30b9", "u30c8", "u30a2">>>>
fuelKeywords == <<<<"g", "a", "s">>, <<"p", "e", "t", "r", "o", "l">>, <<"u30ac", "u30bd", "u30ea", "u30f3">>, <<"u30b9", "u30bf", "u30f3", "u30c9">>, <<"u77f3", "u6cb9">>>>
lodgingKeywords == <<<<"h", "o", "t", "e", "l">>, <<"u30db", "u30c6", "u30eb">>, <<"u65c5", "u9928">>, <<"i", "n", "n">>>>
bookKeywords == <<<<"s", "t", "a", "t", "i", "o", "n", "e", "r", "y">>, <<"b", "o", "o", "k">>, <<"u6587", "u623f", "u5177">>, <<"u672c">>, <<"u66f8", "u5e97">>>>
healthKeywords == <<<<"p", "h", "a", "r", "m", "a">>, <<"d", "r", "u", "g">>, <<"u533b", "u85ac">>, <<"u85ac", "u5c40">>, <<"u30c9", "u30e9", "u30c3", "u30b0">>>>

\* the category labels: 飲食, 食料品, 交通費, 宿泊, 文具・書籍, 医療・健康, その他
LabelDining == <<"u98f2", "u98df">>
LabelGrocery == <<"u98df", "u6599", "u54c1">>
LabelTransport == <<"u4ea4", "u901a", "u8cbb">>
LabelLodging == <<"u5bbf", "u6cca">>
LabelBooks == <<"u6587", "u5177", "u30fb", "u66f8", "u7c4d">>
LabelHealth == <<"u533b", "u7642", "u30fb", "u5065", "u5eb7">>
LabelOther == <<"u305d", "u306e", "u4ed6">>

\* a variant of categorizeStore that tests the grocery keywords before the
\* dining keywords
categorizeGroceryFirst(name) ==
  LET lowerStoreName == toLowerCase(name)
  IN  IF RegExpTest(Keywords(groceryKeywords), lowerStoreName) THEN LabelGrocery
      ELSE IF RegExpTest(Keywords(diningKeywords), lowerStoreName) THEN LabelDining
      ELSE IF RegExpTest(Keywords(fuelKeywords), lowerStoreName) THEN LabelTransport
      ELSE IF RegExpTest(Keywords(lodgingKeywords), lowerStoreName) THEN LabelLodging
      ELSE IF RegExpTest(Keywords(bookKeywords), lowerStoreName) THEN LabelBooks
      ELSE IF RegExpTest(Keywords(healthKeywords), lowerStoreName) THEN LabelHealth
      ELSE LabelOther

\* categorizeStore
categorizeStore(name) ==
  LET lowerStoreName == toLowerCase(name)
  IN  IF RegExpTest(Keywords(diningKeywords), lowerStoreName) THEN LabelDining
      ELSE IF RegExpTest(Keywords(groceryKeywords), lowerStoreName) THEN LabelGrocery
      ELSE IF RegExpTest(Keywords(fuelKeywords), lowerStoreName) THEN LabelTransport
      ELSE IF RegExpTest(Keywords(lodgingKeywords), lowerStoreName) THEN LabelLodging
      ELSE IF RegExpTest(Keywords(bookKeywords), lowerStoreName) THEN LabelBooks
      ELSE IF RegExpTest(Keywords(healthKeywords), lowerStoreName) THEN LabelHealth
      ELSE LabelOther

\* a variant of assemble without the || defaults of storeName, date and amount
assembleNoDefaults(fields, its, processed, path) ==
  [id |-> path.stem,
   storeName |-> fields["storeName"],
   date |-> fields["date"],
   amount |-> fields["amount"],
   items |-> its,
   taxAmount |-> fields["taxAmount"],
   paymentMethod |-> fields["paymentMethod"],
   rawText |-> processed,
   category |-> categorizeStore(Or(fields["storeName"], JStr(<<>>)).s)]

\* the Receipt parseReceiptText returns, from the extracted fields
assemble(fields, its, processed, path) ==
  [id |-> path.stem,
   storeName |-> Or(fields["storeName"], JStr(UnknownStore)),
   date |-> Or(fields["date"], JStr(UnknownDate)),
   amount |-> Or(fields["amount"], JNum(0)),
   items |-> its,
   taxAmount |-> fields["taxAmount"],
   paymentMethod |-> fields["paymentMethod"],
   rawText |-> processed,
   category |-> categorizeStore(Or(fields["storeName"], JStr(<<>>)).s)]


\* the account titles: 会議費, 消耗品費, 旅費交通費, 福利厚生費, 雑費
AccountMeeting == <<"u4f1a", "u8b70", "u8cbb">>
AccountSupplies == <<"u6d88", "u8017", "u54c1", "u8cbb">>
AccountTravel == <<"u65c5", "u8cbb", "u4ea4", "u901a", "u8cbb">>
AccountWelfare == <<"u798f", "u5229", "u539a", "u751f", "u8cbb">>
AccountMisc == <<"u96d1", "u8cbb">>

\* mapCategoryToAccount
mapCategoryToAccount(cat) ==
  CASE cat = LabelDining -> AccountMeeting
    [] cat = LabelGrocery -> AccountSupplies
    [] cat = LabelTransport -> AccountTravel
    [] cat = LabelLodging -> AccountTravel
    [] cat = LabelBooks -> AccountSupplies
    [] cat = LabelHealth -> AccountWelfare
    [] cat = LabelOther -> AccountMisc
    [] OTHER -> AccountMisc

\* Math.floor(n * 0.1) for a non-negative integer n below 2^53: the double
\* nearest to n * 0.1 has the integer part of n / 10
floorTenth(n) == n \div 10

\* saveAsAccountingCsv: the records written, with the columns 日付, 内容,
\* 勘定科目, 金額, 備考 (the id after 領収書ID: ), 税区分, 税額
accountingData(rs) ==
  [i \in 1..Len(rs) |->
     [date |-> rs[i].date,
      content |-> rs[i].storeName,
      account |-> mapCategoryToAccount(IF rs[i].category = <<>> THEN LabelOther
                                       ELSE rs[i].category),
      amount |-> rs[i].amount,
      note |-> <<<<"u9818", "u53ce", "u66f8", "I", "D", ":", " ">>, rs[i].id>>,
      taxClass |-> <<"u8ab2", "u7a0e">>,
      tax |-> Or(rs[i].taxAmount, JNum(floorTenth(rs[i].amount.n)))]]

\* saveAsCsv: the columns of the records written
csvRecords(rs) ==
  [i \in 1..Len(rs) |->
     [id |-> rs[i].id, date |-> rs[i].date, storeName |-> rs[i].storeName,
      amount |-> rs[i].amount, taxAmount |-> rs[i].taxAmount,
      category |-> rs[i].category, paymentMethod |-> rs[i].paymentMethod]]

\* what main writes for a format
saved(format, rs) ==
  CASE format = "json" -> rs
    [] format = "csv" -> csvRecords(rs)
    [] format = "accounting" -> accountingData(rs)

(***************************************************************************)
(* Inputs                                                                  *)
(***************************************************************************)
\* the most lines of an OCR text
MaxLines == 2

\* the most words of a store name given to categorizeStore
MaxWords == 2

\* the most entries of the directory listing
MaxFiles == 2

\* the most receipts given to an export
MaxReceipts == 2

\* lines an OCR text is made of
Lines == {
  <<"u306a", "u3093", "u3067", "u3082", "u5546", "u5e97">>,
  <<"a", "b", "c">>,
  <<>>,
  <<"u00a5", "5", "0", "0">>,
  <<"u00a5", "1", ",", "5", "0", "0">>,
  <<"u5408", "u8a08", "u91d1", "u984d", "uff1a", "u00a5", "3", ",", "3", "0", "0">>,
  <<"u5c0f", "u8a08", " ", "u00a5", "1", ",", "0", "0", "0">>,
  <<"u5546", "u53f7", "u540d", "u79f0", " ", "X", "Y">>,
  <<"u5e97", "u540d", ":">>,
  <<"u65e5", "u4ed8", "uff1a", "2", "0", "2", "4", "/", "0", "3", "/", "0", "5">> }

RECURSIVE join(_)
join(ls) ==
  IF Len(ls) = 0 THEN <<>>
  ELSE IF Len(ls) = 1 THEN ls[1]
  ELSE ls[1] \o <<"\n">> \o join(Tail(ls))

\* the two end-to-end receipts of the documentation
ScenarioLabelled ==
  join(<<<<"u30ab", "u30d5", "u30a7", "u6771", "u4eac">>, <<"u65e5", "u4ed8", "uff1a", "2", "0", "2", "4", "/", "0", "3", "/", "0", "5">>, <<"u5408", "u8a08", "u91d1", "u984d", "uff1a", "u00a5", "3", ",", "3", "0", "0">>, <<"u6d88", "u8cbb", "u7a0e", "uff1a", "u00a5", "3", "0", "0">>,
         <<"u652f", "u6255", "u65b9", "u6cd5", "uff1a", "u30af", "u30ec", "u30b8", "u30c3", "u30c8">>>>)

ScenarioUnlabelled == join(<<<<"u306a", "u3093", "u3067", "u3082", "u5546", "u5e97">>, <<"a", "b", "c">>, <<"x", "y", "z">>>>)

\* further whole texts: other date shapes, full-width characters, item lines,
\* tax and payment labels, white space only, three lines
MoreTexts == {
  ScenarioLabelled,
  ScenarioUnlabelled,
  <<"2", "4", "/", "3", "/", "5">>,
  <<"2", "0", "2", "4", "u5e74", "3", "u6708", "5", "u65e5", " ", "a", "b", "c">>,
  <<"3", "u6708", "5", "u65e5">>,
  <<"u5408", "u8a08", "u3000", "uff11", "uff0c", "uff12", "uff10", "uff10", " ", " ", "u5186">>,
  <<"u30b3", "u30fc", "u30d2", "u30fc", " ", "2", " ", "u00a5", "3", "0", "0", " ", "u00a5", "6", "0", "0", "\n", "u304a", "u8336", " ", "1", " ", "u00a5", "1", "0", "0", " ", "u00a5", "1", "0", "0">>,
  <<"u6d88", "u8cbb", "u7a0e", "uff1a", "u00a5", "3", "0", "0">>,
  <<"u7a0e", "u984d", " ", "1", "2", "\n", "u5185", "u7a0e", ":", "3", "4">>,
  <<"t", "o", "t", "a", "l", ":", " ", "9", "8", " ", "P", "A", "Y", "P", "A", "Y">>,
  <<"u5c4b", "u53f7", "uff1a", "u5c71", "u7530", "u5c4b", " ", "u73fe", "u91d1">>,
  <<" ", "\t", "\n", " ">>,
  <<"a", "\n", "\n", "\n", "b">>,
  <<"u00a5", "5", "0", "0", "\n", "u00a5", "1", ",", "5", "0", "0", "\n", "a", "b", "c">>,
  <<"u00a5", "1", ",", "5", "0", "0", "\n", "u00a5", "5", "0", "0", "\n", "a", "b", "c">>,
  <<"u5c0f", "u8a08", " ", "u00a5", "1", ",", "0", "0", "0", "\n", "u5408", "u8a08", "u91d1", "u984d", "uff1a", "u00a5", "3", ",", "3", "0", "0", "\n", "u5546", "u53f7", "u540d", "u79f0", " ", "X", "Y">>,
  <<"u30ec", "u30b8", "u888b", " ", "0", " ", "u00a5", "1", "0", " ", "u00a5", "0", "0">>,
  <<"u5408", "u8a08", " ", "3", ",", "3", "0", "0", "\n", "u5185", "u7a0e", " ", "0", "0">> }

Texts ==
  {join(ls) : ls \in UNION {[1..n -> Lines] : n \in 1..MaxLines}} \cup MoreTexts

\* the source path of the image a text was read from
TextPath == [stem |-> "r", ext |-> <<".", "j", "p", "g">>]

NoPath == [stem |-> "", ext |-> <<>>]

NoReceipt == [id |-> ""]

NoFields == [f \in FieldNames |-> Undefined]

\* no PromptTemplate
NoPrompt == [fieldName |-> ""]

(***************************************************************************)
(* parseReceiptText, statement by statement                                *)
(***************************************************************************)
\* const processedText = this.postprocessText(text)
Postprocess ==
  /\ pc = "postprocess"
  /\ processedText' = postprocessText(text)
  /\ pc' = "extract"
  /\ UNCHANGED << text, filePath, nextPrompt, extractedFields, items, receipt >>

\* one iteration of the loop over japaneseReceiptPrompts
ExtractField ==
  /\ pc = "extract"
  /\ nextPrompt <= Len(japaneseReceiptPrompts)
  /\ extractedFields' =
       [extractedFields EXCEPT ![japaneseReceiptPrompts[nextPrompt].fieldName] =
          extractFieldWithPrompt(processedText, japaneseReceiptPrompts[nextPrompt])]
  /\ nextPrompt' = nextPrompt + 1
  /\ UNCHANGED << text, filePath, processedText, items, receipt, pc >>

\* const items = this.extractItems(processedText)
ExtractItems ==
  /\ pc = "extract"
  /\ nextPrompt > Len(japaneseReceiptPrompts)
  /\ items' = extractItems(processedText)
  /\ pc' = "assemble"
  /\ UNCHANGED << text, filePath, processedText, nextPrompt, extractedFields, receipt >>

\* the return statement
Assemble ==
  /\ pc = "assemble"
  /\ receipt' = assemble(extractedFields, items, processedText, filePath)
  /\ pc' = "done"
  /\ UNCHANGED << text, filePath, processedText, nextPrompt, extractedFields, items >>

(***************************************************************************)
(* One categorizeStore call                                                *)
(***************************************************************************)
Words == {<<"C", "a", "f", "e">>, <<"u30b9", "u30fc", "u30d1", "u30fc">>, <<"G", "A", "S">>, <<"u30db", "u30c6", "u30eb">>, <<"B", "o", "o", "k">>, <<"u85ac", "u5c40">>, <<"u306a", "u3093", "u3067", "u3082", "u5546", "u5e97">>,
          <<"I", "n", "n">>, <<"u5c45", "u9152", "u5c4b">>, <<"u30de", "u30fc", "u30c8">>, <<"X", "Y">>}

RECURSIVE concat(_)
concat(ws) == IF Len(ws) = 0 THEN <<>> ELSE ws[1] \o concat(Tail(ws))

StoreNames == {concat(ws) : ws \in UNION {[1..n -> Words] : n \in 0..MaxWords}}

Categorize ==
  /\ category = <<>>
  /\ category' = categorizeStore(storeName)
  /\ UNCHANGED storeName

(***************************************************************************)
(* One run of main                                                         *)
(***************************************************************************)
Stems == {"a", "b"}

Exts == {<<".", "j", "p", "g">>, <<".", "P", "N", "G">>, <<".", "t", "x", "t">>}

ImageExts == {<<".", "j", "p", "g">>, <<".", "j", "p", "e", "g">>, <<".", "p", "n", "g">>, <<".", "g", "i", "f">>, <<".", "b", "m", "p">>}

\* what reading and OCR of an image give:
\*   readError      fs.readFileSync throws
\*   ocrError       client.textDetection rejects
\*   noAnnotations  textAnnotations is undefined or empty
\*   noDescription  the first annotation has no or an empty description
\*   text           the first annotation's description is a text
Outcomes == {"readError", "ocrError", "noAnnotations", "noDescription", "text"}

\* the text OCR gives for an image with outcome "text"
OcrText == join(<<<<"u306a", "u3093", "u3067", "u3082", "u5546", "u5e97">>, <<"u5408", "u8a08", "u91d1", "u984d", "uff1a", "u00a5", "3", ",", "3", "0", "0">>>>)

\* directory listings: distinct names, each image with what its OCR gives
Listings ==
  {fs \in UNION {[1..n -> [stem : Stems, ext : Exts, outcome : Outcomes]] : n \in 0..MaxFiles} :
     /\ \A i, j \in 1..Len(fs) :
          (fs[i].stem = fs[j].stem /\ fs[i].ext = fs[j].ext) => i = j
     /\ \A i \in 1..Len(fs) :
          toLowerCase(fs[i].ext) \notin ImageExts => fs[i].outcome = "text"}

\* path.extname(file).toLowerCase() is an accepted extension
IsImage(file) == toLowerCase(file.ext) \in ImageExts

\* const imageFiles = files.filter(...)
imageFilesOf(fs) == SelectSeq(fs, IsImage)

\* parseReceiptImage throws before it reaches parseReceiptText
detectionThrows(file) == file.outcome \in {"readError", "ocrError", "noAnnotations"}

\* const text = detections[0].description || ""
detectedText(file) == IF file.outcome = "noDescription" THEN <<>> ELSE OcrText

Formats == {"json", "csv", "accounting"}

\* processDirectory finds the directory and lists its images
DirectoryFound ==
  /\ pcMain = "main"
  /\ dirExists
  /\ pcMain' = "loop"
  /\ UNCHANGED << dirExists, files, fileIdx, receipts, exitCode, output, written >>
  /\ UNCHANGED textVars

\* processDirectory throws, main catches and calls process.exit(1)
DirectoryMissing ==
  /\ pcMain = "main"
  /\ ~dirExists
  /\ exitCode' = 1
  /\ pcMain' = "exited"
  /\ UNCHANGED << dirExists, files, fileIdx, receipts, output, written >>
  /\ UNCHANGED textVars

\* a variant of ImageFails without the catch of the loop: the failure leaves
\* processDirectory and main exits
ImageFailsUncaught ==
  /\ pcMain = "loop"
  /\ pc = "idle"
  /\ fileIdx <= Len(imageFilesOf(files))
  /\ detectionThrows(imageFilesOf(files)[fileIdx])
  /\ exitCode' = 1
  /\ pcMain' = "exited"
  /\ UNCHANGED << dirExists, files, fileIdx, receipts, output, written >>
  /\ UNCHANGED textVars

\* parseReceiptImage throws; the catch of the loop logs it and the loop goes on
ImageFails ==
  /\ pcMain = "loop"
  /\ pc = "idle"
  /\ fileIdx <= Len(imageFilesOf(files))
  /\ detectionThrows(imageFilesOf(files)[fileIdx])
  /\ fileIdx' = fileIdx + 1
  /\ UNCHANGED << dirExists, files, receipts, exitCode, output, pcMain, written >>
  /\ UNCHANGED textVars

\* parseReceiptImage reads the first annotation and calls parseReceiptText
ImageDetected ==
  /\ pcMain = "loop"
  /\ pc = "idle"
  /\ fileIdx <= Len(imageFilesOf(files))
  /\ ~detectionThrows(imageFilesOf(files)[fileIdx])
  /\ text' = detectedText(imageFilesOf(files)[fileIdx])
  /\ filePath' = [stem |-> imageFilesOf(files)[fileIdx].stem,
                  ext |-> imageFilesOf(files)[fileIdx].ext]
  /\ processedText' = <<>>
  /\ nextPrompt' = 1
  /\ extractedFields' = NoFields
  /\ items' = <<>>
  /\ receipt' = NoReceipt
  /\ pc' = "postprocess"
  /\ UNCHANGED mainVars

\* receipts.push(receipt)
PushReceipt ==
  /\ pcMain = "loop"
  /\ pc = "done"
  /\ receipts' = Append(receipts, receipt)
  /\ fileIdx' = fileIdx + 1
  /\ pc' = "idle"
  /\ UNCHANGED << dirExists, files, exitCode, output, pcMain, written >>
  /\ UNCHANGED << text, filePath, processedText, nextPrompt, extractedFields, items, receipt >>

\* return receipts
ReturnReceipts ==
  /\ pcMain = "loop"
  /\ pc = "idle"
  /\ fileIdx > Len(imageFilesOf(files))
  /\ pcMain' = "output"
  /\ UNCHANGED << dirExists, files, fileIdx, receipts, exitCode, output, written >>
  /\ UNCHANGED textVars

\* main writes the output file in the format of the arguments
SaveOutput ==
  /\ pcMain = "output"
  /\ Len(receipts) > 0
  /\ \E format \in Formats :
       /\ output' = format
       /\ written' = saved(format, receipts)
  /\ pcMain' = "exited"
  /\ UNCHANGED << dirExists, files, fileIdx, receipts, exitCode >>
  /\ UNCHANGED textVars

\* a variant of NoOutput that exits with status 1
NoOutputExitsOne ==
  /\ pcMain = "output"
  /\ Len(receipts) = 0
  /\ exitCode' = 1
  /\ pcMain' = "exited"
  /\ UNCHANGED << dirExists, files, fileIdx, receipts, output, written >>
  /\ UNCHANGED textVars

\* main logs that no receipt was processed and returns
NoOutput ==
  /\ pcMain = "output"
  /\ Len(receipts) = 0
  /\ pcMain' = "exited"
  /\ UNCHANGED << dirExists, files, fileIdx, receipts, exitCode, output, written >>
  /\ UNCHANGED textVars

(***************************************************************************)
(* Specifications                                                          *)
(***************************************************************************)
\* main on every directory of Listings
Init ==
  /\ dirExists \in BOOLEAN
  /\ files \in Listings
  /\ ~dirExists => files = <<>>
  /\ fileIdx = 1
  /\ receipts = <<>>
  /\ exitCode = 0
  /\ output = "none"
  /\ written = <<>>
  /\ pcMain = "main"
  /\ text = <<>>
  /\ filePath = NoPath
  /\ processedText = <<>>
  /\ nextPrompt = 1
  /\ extractedFields = NoFields
  /\ items = <<>>
  /\ receipt = NoReceipt
  /\ pc = "idle"
  /\ storeName = <<>>
  /\ category = LabelOther
  /\ promptText = <<>>
  /\ template = NoPrompt
  /\ fieldResult = Undefined

Next ==
  \/ DirectoryFound /\ UNCHANGED << catVars, promptVars >>
  \/ DirectoryMissing /\ UNCHANGED << catVars, promptVars >>
  \/ ImageFails /\ UNCHANGED << catVars, promptVars >>
  \/ ImageDetected /\ UNCHANGED << catVars, promptVars >>
  \/ Postprocess /\ UNCHANGED << catVars, mainVars, promptVars >>
  \/ ExtractField /\ UNCHANGED << catVars, mainVars, promptVars >>
  \/ ExtractItems /\ UNCHANGED << catVars, mainVars, promptVars >>
  \/ Assemble /\ UNCHANGED << catVars, mainVars, promptVars >>
  \/ PushReceipt /\ UNCHANGED << catVars, promptVars >>
  \/ ReturnReceipts /\ UNCHANGED << catVars, promptVars >>
  \/ SaveOutput /\ UNCHANGED << catVars, promptVars >>
  \/ NoOutput /\ UNCHANGED << catVars, promptVars >>

Spec == Init /\ [][Next]_vars

\* parseReceiptText on every text of Texts
InitText ==
  /\ text \in Texts
  /\ filePath = TextPath
  /\ processedText = <<>>
  /\ nextPrompt = 1
  /\ extractedFields = NoFields
  /\ items = <<>>
  /\ receipt = NoReceipt
  /\ pc = "postprocess"
  /\ storeName = <<>>
  /\ category = LabelOther
  /\ dirExists = FALSE
  /\ files = <<>>
  /\ fileIdx = 1
  /\ receipts = <<>>
  /\ exitCode = 0
  /\ output = "none"
  /\ written = <<>>
  /\ pcMain = "idle"
  /\ promptText = <<>>
  /\ template = NoPrompt
  /\ fieldResult = Undefined

NextText ==
  \/ Postprocess /\ UNCHANGED << catVars, mainVars, promptVars >>
  \/ ExtractField /\ UNCHANGED << catVars, mainVars, promptVars >>
  \/ ExtractItems /\ UNCHANGED << catVars, mainVars, promptVars >>
  \/ Assemble /\ UNCHANGED << catVars, mainVars, promptVars >>

SpecText == InitText /\ [][NextText]_vars

\* categorizeStore on every name of StoreNames
InitCat ==
  /\ storeName \in StoreNames
  /\ category = <<>>
  /\ text = <<>>
  /\ filePath = NoPath
  /\ processedText = <<>>
  /\ nextPrompt = 1
  /\ extractedFields = NoFields
  /\ items = <<>>
  /\ receipt = NoReceipt
  /\ pc = "idle"
  /\ dirExists = FALSE
  /\ files = <<>>
  /\ fileIdx = 1
  /\ receipts = <<>>
  /\ exitCode = 0
  /\ output = "none"
  /\ written = <<>>
  /\ pcMain = "idle"
  /\ promptText = <<>>
  /\ template = NoPrompt
  /\ fieldResult = Undefined

NextCat == Categorize /\ UNCHANGED << textVars, mainVars, promptVars >>

SpecCat == InitCat /\ [][NextCat]_vars

\* extractFieldWithPrompt on every text of PromptTexts and template of
\* PromptTemplates
PromptTexts == {postprocessText(t) : t \in Lines \cup MoreTexts}

\* the templates of the table, and the date template with the fallback of
\* storeName added
PromptTemplates ==
  {japaneseReceiptPrompts[j] : j \in 1..Len(japaneseReceiptPrompts)}
    \cup {[fieldName |-> "date", patterns |-> datePatterns,
           hasProcessor |-> TRUE, processor |-> "date",
           hasFallback |-> TRUE, fallback |-> "storeName"]}

\* the call has not returned
Pending == [k |-> "pending", s |-> <<>>, n |-> 0]

ExtractWithPrompt ==
  /\ fieldResult = Pending
  /\ fieldResult' = extractFieldWithPrompt(promptText, template)
  /\ UNCHANGED << promptText, template >>

InitPrompt ==
  /\ promptText \in PromptTexts
  /\ template \in PromptTemplates
  /\ fieldResult = Pending
  /\ text = <<>>
  /\ filePath = NoPath
  /\ processedText = <<>>
  /\ nextPrompt = 1
  /\ extractedFields = NoFields
  /\ items = <<>>
  /\ receipt = NoReceipt
  /\ pc = "idle"
  /\ storeName = <<>>
  /\ category = LabelOther
  /\ dirExists = FALSE
  /\ files = <<>>
  /\ fileIdx = 1
  /\ receipts = <<>>
  /\ exitCode = 0
  /\ output = "none"
  /\ written = <<>>
  /\ pcMain = "idle"

NextPrompt == ExtractWithPrompt /\ UNCHANGED << textVars, catVars, mainVars >>

SpecPrompt == InitPrompt /\ [][NextPrompt]_vars

\* the output step of main on every sequence of up to MaxReceipts receipts of
\* ExportReceipts
ExportReceipts ==
  [id : {"a"}, storeName : {JStr(<<"u306a", "u3093", "u3067", "u3082", "u5546", "u5e97">>)}, date : {JStr(UnknownDate)},
   amount : {JNum(0), JNum(9), JNum(3300)}, items : {<<>>},
   taxAmount : {Undefined, JNum(0), JNum(300)},
   paymentMethod : {Undefined}, rawText : {<<"u306a", "u3093", "u3067", "u3082", "u5546", "u5e97">>},
   category : {<<>>, LabelDining, LabelOther}]

InitExport ==
  /\ receipts \in UNION {[1..n -> ExportReceipts] : n \in 0..MaxReceipts}
  /\ dirExists = TRUE
  /\ files = <<>>
  /\ fileIdx = 1
  /\ exitCode = 0
  /\ output = "none"
  /\ written = <<>>
  /\ pcMain = "output"
  /\ text = <<>>
  /\ filePath = NoPath
  /\ processedText = <<>>
  /\ nextPrompt = 1
  /\ extractedFields = NoFields
  /\ items = <<>>
  /\ receipt = NoReceipt
  /\ pc = "idle"
  /\ storeName = <<>>
  /\ category = LabelOther
  /\ promptText = <<>>
  /\ template = NoPrompt
  /\ fieldResult = Undefined

NextExport ==
  \/ SaveOutput /\ UNCHANGED << catVars, promptVars >>
  \/ NoOutput /\ UNCHANGED << catVars, promptVars >>

SpecExport == InitExport /\ [][NextExport]_vars

(***************************************************************************)
(* Properties of parseReceiptText (SpecText)                               *)
(***************************************************************************)
\* the labels categorizeStore can return
Labels == {LabelDining, LabelGrocery, LabelTransport, LabelLodging, LabelBooks,
           LabelHealth, LabelOther}

\* parseReceiptText has returned
Returned == pc = "done"

\* the rules of a field whose pattern matches t, by index
MatchingRules(fieldName, t) ==
  {j \in 1..Len(PromptOf(fieldName).patterns) :
     RegExpTest(PromptOf(fieldName).patterns[j], t)}

\* the rules of a field whose pattern matches t with a non-empty first capture
CapturingRules(fieldName, t) ==
  {j \in MatchingRules(fieldName, t) :
     Group(RegExpExec(PromptOf(fieldName).patterns[j], t), t, 1) # <<>>}

\* the date rules for a year, a month and a day: rules 1 to 3
YmdRules(t) == MatchingRules("date", t) \cap (1..3)

\* year-month-day of the match of the first year/month/day rule that matches
\* t: the year with 20 before two digits, month and day padded to two digits
CanonicalDate(t) ==
  LET m == RegExpExec(datePatterns[SetMin(YmdRules(t))], t)
      year == Group(m, t, 1)
  IN  (IF Len(year) = 2 THEN <<"2", "0">> \o year ELSE year) \o <<"-">>
        \o padStart2(Group(m, t, 2)) \o <<"-">> \o padStart2(Group(m, t, 3))

\* C1: when a date rule matches a year/month/day date in the text, the Receipt
\* parseReceiptText returns has date equal to the canonical YYYY-MM-DD string
\* of that year, month and day (日付：2024/03/05 gives 2024-03-05).
C1_DateCanonical ==
  (Returned /\ YmdRules(processedText) # {})
    => receipt.date = JStr(CanonicalDate(processedText))

\* C2: for every non-empty text parseReceiptText returns a Receipt whose
\* storeName is a non-empty string, whose amount is a non-negative integer and
\* whose category is one of the seven labels; a field that was not recovered
\* holds its sentinel, 0 or undefined.
C2_DegradeNeverThrow ==
  (Returned /\ text # <<>>) =>
    /\ receipt.storeName.k = "string" /\ receipt.storeName.s # <<>>
    /\ receipt.amount.k = "number" /\ receipt.amount.n \in Nat
    /\ receipt.category \in Labels
    /\ receipt.date.k = "string" /\ receipt.date.s # <<>>
    /\ ~Truthy(extractedFields["storeName"]) => receipt.storeName = JStr(UnknownStore)
    /\ ~Truthy(extractedFields["date"]) => receipt.date = JStr(UnknownDate)
    /\ ~Truthy(extractedFields["amount"]) => receipt.amount = JNum(0)
    /\ receipt.taxAmount.k \in {"number", "undefined"}
    /\ receipt.paymentMethod.k \in {"string", "undefined"}

\* a non-empty text for which every field degrades
C2_Witness ==
  /\ Returned /\ text # <<>>
  /\ receipt.storeName = JStr(UnknownStore)
  /\ receipt.date = JStr(UnknownDate)
  /\ receipt.amount = JNum(0)
  /\ receipt.taxAmount = Undefined

\* the lines of t that are not blank
NonBlankLines(t) == SelectSeq(split(t, {"\n"}), LAMBDA line : trim(line) # <<>>)

\* the first non-blank line of t, trimmed, or the sentinel when there is none
FirstNonBlankLine(t) ==
  IF Len(NonBlankLines(t)) > 0 THEN trim(NonBlankLines(t)[1]) ELSE UnknownStore

\* C3: when no storeName rule matches, the storeName of the Receipt is the
\* first non-blank line of the input text, trimmed, and the sentinel when the
\* text has no non-blank line (なんでも商店 followed by unrelated lines gives
\* storeName なんでも商店, amount 0 and no taxAmount).
C3_StoreNameFirstLine ==
  (Returned /\ MatchingRules("storeName", processedText) = {})
    => receipt.storeName = JStr(FirstNonBlankLine(text))

\* the first capture of rule j of a field on t, trimmed and processed
RuleResult(fieldName, t, j) ==
  LET value == trim(Group(RegExpExec(PromptOf(fieldName).patterns[j], t), t, 1))
  IN  IF PromptOf(fieldName).hasProcessor THEN processor(fieldName, value)
      ELSE JStr(value)

\* every field of the rule table has been extracted
FieldsExtracted == pc \in {"assemble", "done"}

\* C7, as stated: for every field with a rule whose pattern matches the text,
\* the result is the trimmed, processed first capture of the lowest such rule,
\* never a later rule's capture or the fallback.
C7_FirstMatchingRuleWins ==
  FieldsExtracted =>
    \A f \in FieldNames :
      MatchingRules(f, processedText) # {} =>
        extractedFields[f] = RuleResult(f, processedText, SetMin(MatchingRules(f, processedText)))

\* C7, amended: a rule whose pattern matches with an empty first capture is
\* passed over. The result is the trimmed, processed first capture of the
\* lowest rule whose pattern matches with a non-empty first capture; when there
\* is no such rule it is the fallback's result, or undefined without fallback.
C7_FirstCapturingRuleWins ==
  FieldsExtracted =>
    \A f \in FieldNames :
      extractedFields[f] =
        IF CapturingRules(f, processedText) # {}
        THEN RuleResult(f, processedText, SetMin(CapturingRules(f, processedText)))
        ELSE IF PromptOf(f).hasFallback THEN fallback(f, processedText)
        ELSE Undefined

\* the fields of a text have been extracted where two amount rules capture
\* different numbers and a storeName rule matches with an empty capture
C7_Witness ==
  /\ FieldsExtracted
  /\ {1, 2} \subseteq CapturingRules("amount", processedText)
  /\ RuleResult("amount", processedText, 1) # RuleResult("amount", processedText, 2)
  /\ MatchingRules("storeName", processedText) # {}
  /\ CapturingRules("storeName", processedText) = {}

\* the currency signs of the amount rules: ￥ and ¥
CurrencySigns == {"uffe5", "u00a5"}

\* the first position from i on that holds no white space
SkipSpace(t, i) ==
  SetMin({j \in i..(Len(t) + 1) : j = Len(t) + 1 \/ t[j] \notin WhiteSpace})

\* the digits and commas of t from position i on
NumberRun(t, i) ==
  SubSeq(t, i, SetMin({j \in i..(Len(t) + 1) :
                         j = Len(t) + 1 \/ t[j] \notin (Digits \cup {","})}) - 1)

\* the positions of t where a currency-marked number starts: a currency sign,
\* white space, a digit and at least one more digit or comma
CurrencyTokens(t) ==
  {i \in 1..Len(t) :
     /\ t[i] \in CurrencySigns
     /\ Len(NumberRun(t, SkipSpace(t, i + 1))) >= 2
     /\ NumberRun(t, SkipSpace(t, i + 1))[1] \in Digits}

\* the number of the token at position i, thousands separators stripped
TokenValue(t, i) == DigitsValue(removeChars(NumberRun(t, SkipSpace(t, i + 1)), {","}))

\* the largest currency-marked number of t, 0 when there is none
MaxCurrencyValue(t) ==
  IF CurrencyTokens(t) = {} THEN 0
  ELSE SetMax({TokenValue(t, i) : i \in CurrencyTokens(t)})

\* the labelled-total rules of amount: rules 1 to 4
LabelledTotalRules(t) == MatchingRules("amount", t) \cap (1..4)

\* C8, as stated: when no labelled-total rule matches, amount is the largest
\* currency-marked number of the whole text, whatever the order of the tokens,
\* and 0 when the text has none.
C8_AmountIsMaxToken ==
  (Returned /\ LabelledTotalRules(processedText) = {})
    => receipt.amount = JNum(MaxCurrencyValue(processedText))

\* C8, amended: the fifth amount rule, a currency-marked number that ends the
\* text or stands before 円, is tried before the fallback. When no amount rule
\* matches at all, amount is the largest currency-marked number of the text
\* and 0 without one; when only the fifth rule matches, amount is the number
\* it captures.
C8_AmountFallback ==
  Returned =>
    /\ MatchingRules("amount", processedText) = {}
         => receipt.amount = JNum(MaxCurrencyValue(processedText))
    /\ MatchingRules("amount", processedText) = {5}
         => receipt.amount = Or(RuleResult("amount", processedText, 5), JNum(0))

\* the fallback has chosen among two currency-marked numbers, the smaller first
C8_Witness ==
  /\ Returned
  /\ MatchingRules("amount", processedText) = {}
  /\ \E i, j \in CurrencyTokens(processedText) :
       i < j /\ TokenValue(processedText, i) < TokenValue(processedText, j)

\* C9: postprocessText is idempotent: postprocessText(postprocessText(x)) =
\* postprocessText(x), for every text x.
C9_PostprocessIdempotent ==
  pc # "postprocess" => postprocessText(processedText) = processedText

\* postprocessText has changed a text with a full-width digit and a line break
C9_Witness ==
  /\ pc # "postprocess" /\ pc # "idle"
  /\ processedText # text
  /\ \E k \in 1..Len(text) : \E d \in 1..10 : text[k] = FullWidthDigits[d]
  /\ \E k \in 1..Len(text) : text[k] \in WhiteSpace \ {" "}

(***************************************************************************)
(* Properties of categorizeStore (SpecCat)                                 *)
(***************************************************************************)
\* word w occurs in s
Contains(s, w) == \E i \in 1..(Len(s) - Len(w) + 1) : SubSeq(s, i, i + Len(w) - 1) = w

\* some keyword of ws occurs in the lower-cased name
AnyKeyword(ws, name) == \E j \in 1..Len(ws) : Contains(toLowerCase(name), ws[j])

\* the categories in priority order: keywords and label
Categories == <<
  [keywords |-> diningKeywords, label |-> LabelDining],
  [keywords |-> groceryKeywords, label |-> LabelGrocery],
  [keywords |-> fuelKeywords, label |-> LabelTransport],
  [keywords |-> lodgingKeywords, label |-> LabelLodging],
  [keywords |-> bookKeywords, label |-> LabelBooks],
  [keywords |-> healthKeywords, label |-> LabelHealth] >>

\* the categories a keyword of which occurs in the name, by index
MatchingCategories(name) ==
  {j \in 1..Len(Categories) : AnyKeyword(Categories[j].keywords, name)}

\* categorizeStore has returned
Categorized == category # <<>>

\* C10: categorizeStore returns one of the seven labels for every name: the
\* label of the first category, in the order dining, groceries,
\* transportation, lodging, stationery and books, healthcare, a keyword of
\* which occurs in the lower-cased name, and その他 exactly when none does.
C10_CategorizeFirstMatch ==
  Categorized =>
    /\ category \in Labels
    /\ MatchingCategories(storeName) # {}
         => category = Categories[SetMin(MatchingCategories(storeName))].label
    /\ category = LabelOther <=> MatchingCategories(storeName) = {}

\* a name with keywords of two categories, the later category's keyword first
C10_Witness ==
  /\ Categorized
  /\ {1, 2} \subseteq MatchingCategories(storeName)
  /\ storeName = <<"u30b9", "u30fc", "u30d1", "u30fc", "C", "a", "f", "e">>
  /\ category = LabelDining

(***************************************************************************)
(* Properties of processDirectory and main (Spec)                          *)
(***************************************************************************)
\* the images of the listing
Images == SelectSeq(files, LAMBDA f : toLowerCase(f.ext) \in ImageExts)

\* the stems of the first n images whose OCR gave a first annotation
SucceededStems(n) ==
  LET ok == SelectSeq(SubSeq(Images, 1, n),
                      LAMBDA f : f.outcome \in {"noDescription", "text"})
  IN  [i \in 1..Len(ok) |-> ok[i].stem]

\* the ids of the receipts collected so far
ReceiptIds == [i \in 1..Len(receipts) |-> receipts[i].id]

\* C4: when OCR gives no text for an image (no annotation, or a first
\* annotation without description), parseReceiptImage raises an error and no
\* Receipt is built for the image: parseReceiptText never returns a Receipt
\* built from the empty text.
C4_EmptyOcrNoReceipt ==
  /\ ~(pcMain = "loop" /\ Returned /\ text = <<>>)
  /\ \A i \in 1..Len(receipts) : receipts[i].rawText # <<>>

Exited == pcMain = "exited"

\* C6, as stated: when the input directory does not exist, and when it exists
\* but no image is found or no receipt results, the run ends with a non-zero
\* exit status and without an output file.
C6_RunFailuresExitNonZero ==
  (Exited /\ (~dirExists \/ Len(Images) = 0 \/ Len(receipts) = 0))
    => (exitCode # 0 /\ output = "none")

\* C6, amended: a missing input directory ends the run with exit status 1 and
\* without an output file; a directory without images, or without a receipt,
\* ends the run without an output file and with exit status 0. An output file
\* is written exactly when there is a receipt.
C6_RunFailures ==
  Exited =>
    /\ ~dirExists => (exitCode = 1 /\ output = "none")
    /\ (dirExists /\ Len(receipts) = 0) => (exitCode = 0 /\ output = "none")
    /\ output # "none" <=> Len(receipts) > 0

\* the run of a directory whose only image failed has ended
C6_Witness ==
  /\ Exited
  /\ dirExists
  /\ Len(Images) = 1
  /\ Len(receipts) = 0
  /\ output = "none"

(***************************************************************************)
(* Properties of extractFieldWithPrompt (SpecPrompt)                       *)
(***************************************************************************)
\* the rules of a template whose pattern matches t, by index
TemplateMatching(p, t) == {j \in 1..Len(p.patterns) : RegExpTest(p.patterns[j], t)}

\* the rules of a template whose pattern matches t with a non-empty first
\* capture
TemplateCapturing(p, t) ==
  {j \in TemplateMatching(p, t) : Group(RegExpExec(p.patterns[j], t), t, 1) # <<>>}

\* the first capture of rule j of a template on t, trimmed and processed
TemplateResult(p, t, j) ==
  LET value == trim(Group(RegExpExec(p.patterns[j], t), t, 1))
  IN  IF p.hasProcessor THEN processor(p.processor, value) ELSE JStr(value)

\* extractFieldWithPrompt has returned
PromptReturned == fieldResult # Pending

\* C11, as stated: when a rule's pattern matches, the result is what that
\* rule's capture and the processor give, null included, and the fallback is
\* not invoked; the fallback is invoked only when no pattern matches; without
\* match and fallback the result is undefined.
C11_FallbackOnlyWithoutMatch ==
  PromptReturned =>
    /\ TemplateMatching(template, promptText) # {} =>
         \E j \in TemplateMatching(template, promptText) :
           fieldResult = TemplateResult(template, promptText, j)
    /\ (TemplateMatching(template, promptText) = {} /\ template.hasFallback) =>
         fieldResult = fallback(template.fallback, promptText)
    /\ (TemplateMatching(template, promptText) = {} /\ ~template.hasFallback) =>
         fieldResult = Undefined

\* C11, amended: when a rule matches with a non-empty first capture and the
\* processor returns null, the result is null and the fallback is not
\* invoked. The fallback is invoked exactly when no rule matches with a
\* non-empty first capture, which includes a pattern that matches with an
\* empty capture; without such a rule and without fallback the result is
\* undefined.
C11_FallbackOrdering ==
  PromptReturned =>
    /\ TemplateCapturing(template, promptText) # {} =>
         fieldResult =
           TemplateResult(template, promptText,
                          SetMin(TemplateCapturing(template, promptText)))
    /\ (TemplateCapturing(template, promptText) = {} /\ template.hasFallback) =>
         fieldResult = fallback(template.fallback, promptText)
    /\ (TemplateCapturing(template, promptText) = {} /\ ~template.hasFallback) =>
         fieldResult = Undefined

\* a template with a processor and a fallback has matched, the processor has
\* returned null and the result is null, not what the fallback gives
C11_Witness ==
  /\ PromptReturned
  /\ template.hasProcessor /\ template.hasFallback
  /\ TemplateCapturing(template, promptText) # {}
  /\ fieldResult = Null
  /\ fallback(template.fallback, promptText) # Null

(***************************************************************************)
(* Properties of the line items (SpecText)                                 *)
(***************************************************************************)
\* the lines of t that match the item pattern, each normalized
ItemLines(t) ==
  SelectSeq([i \in 1..Len(split(t, {"\n"})) |-> postprocessText(split(t, {"\n"})[i])],
            LAMBDA line : RegExpTest(itemPattern, line))

\* the ReceiptItem of a line that matches the item pattern
ItemOfLine(line) ==
  LET m == RegExpExec(itemPattern, line)
  IN  [name |-> trim(Group(m, line, 1)),
       quantity |-> DigitsValue(Group(m, line, 2)),
       unitPrice |-> DigitsValue(removeChars(Group(m, line, 3), {","})),
       totalPrice |-> DigitsValue(removeChars(Group(m, line, 4), {","}))]

\* C12: items holds exactly one ReceiptItem for each line of the input text
\* that matches the item pattern, in line order; N matching lines give N
\* items and a line that does not match gives none.
C12_OneItemPerLine ==
  Returned =>
    receipt.items = [i \in 1..Len(ItemLines(text)) |-> ItemOfLine(ItemLines(text)[i])]

\* C15: every ReceiptItem has a quantity that is a positive integer and a
\* unitPrice and a totalPrice that are non-negative integers.
C15_ItemConstraints ==
  Returned =>
    \A i \in 1..Len(receipt.items) :
      /\ receipt.items[i].quantity \in Nat /\ receipt.items[i].quantity >= 1
      /\ receipt.items[i].unitPrice \in Nat
      /\ receipt.items[i].totalPrice \in Nat

(***************************************************************************)
(* Properties of the accounting export (SpecExport) and of the ids (Spec)  *)
(***************************************************************************)
\* floor(n * 0.1): the largest k with 10 * k <= n
TenthFloor(n) == CHOOSE k \in 0..n : 10 * k <= n /\ n < 10 * (k + 1)

\* the accounting records have been written
AccountingSaved == pcMain = "exited" /\ output = "accounting"

\* C13: the tax column of the accounting export is the Receipt's taxAmount
\* whenever taxAmount is present, 0 included, and floor(amount * 0.1) only
\* when taxAmount is absent.
C13_TaxColumn ==
  AccountingSaved =>
    /\ Len(written) = Len(receipts)
    /\ \A i \in 1..Len(receipts) :
         written[i].tax =
           IF receipts[i].taxAmount.k = "number" THEN receipts[i].taxAmount
           ELSE JNum(TenthFloor(receipts[i].amount.n))

\* C14: the Receipts one processDirectory call returns have pairwise distinct
\* ids.
C14_IdsUnique ==
  pcMain \in {"output", "exited"} =>
    \A i, j \in 1..Len(receipts) : receipts[i].id = receipts[j].id => i = j

====
